---- MODULE Spec2Model ----
(***************************************************************************)
(* State-machine model of the three command-line scripts of the            *)
(* repository:                                                             *)
(*   scripts/convert_thrust_lookup.py   (SpecLookup)                       *)
(*   scripts/process_thrust_map.py      (SpecThrustMap)                    *)
(*   scripts/process_efficiency.py      (SpecEfficiency)                   *)
(* Every script is one sequential run of main(); pc is the position in     *)
(* main(), err the exception that ended the run ("" when none), out the    *)
(* CSV files written so far (in the order of the to_csv calls).            *)
(*                                                                         *)
(* Numbers.  Table cells are integers.  A quotient the code computes       *)
(* (a mean, a percentage) is kept exact as a pair <<numerator,             *)
(* denominator>>.  cmd values are counted in units of 1e-10, so that the   *)
(* clamp 1e-9 of convert_thrust_lookup.main is the integer SPAN_MIN.       *)
(***************************************************************************)
EXTENDS Integers, Sequences, FiniteSets

VARIABLES
    pc,            \* position in main()
    err,           \* exception that ended the run, "" when none
    out,           \* sequence of written CSV files [name, header, rows]
    data,          \* convert_thrust_lookup: the matrix np.loadtxt returns
    args,          \* parsed command line arguments of the running script
    voltages,      \* convert_thrust_lookup: voltage axis
    forces,        \* convert_thrust_lookup: force axis
    Z,             \* convert_thrust_lookup: cmd grid
    meta,          \* convert_thrust_lookup: the meta dict ("N" entry)
    curve,         \* convert_thrust_lookup: v_sel, f_vec, cmd_vec, cmd_1d, thrust_1d
    df,            \* process_thrust_map / process_efficiency: the data frame
    picked,        \* process_thrust_map: thrust_col, throttle_col, rpm_col
    wrote_any,     \* process_thrust_map: the wrote_any flag
    exit_status,   \* process exit status, -1 while running
    bins,          \* process_efficiency: the bin edges np.linspace returned
    g              \* process_efficiency: the aggregated frame

vars == <<pc, err, out, data, args, voltages, forces, Z, meta, curve, df,
          picked, wrote_any, exit_status, bins, g>>

lookupVars == <<data, voltages, forces, Z, meta, curve>>
thrustVars == <<picked, wrote_any>>
effVars == <<bins, g>>

(***************************************************************************)
(* Bounds of the model.                                                    *)
(***************************************************************************)
MaxGrid == 3       \* largest N of a well-formed lookup file with free cells
MaxN == 6          \* largest declared N of a lookup file of any shape
MaxDataRows == 7   \* largest number of rows after the meta row
MaxWidth == 7      \* largest number of columns of a lookup file

None == "None"     \* Python's None where a column name is expected
NoArg == <<>>      \* Python's None for an optional number; <<x>> is the number x

(***************************************************************************)
(* Generic helpers on sequences.                                           *)
(***************************************************************************)
RECURSIVE SumSeq(_)
SumSeq(s) == IF s = <<>> THEN 0 ELSE Head(s) + SumSeq(Tail(s))

RECURSIVE Flatten(_)
Flatten(rows) == IF rows = <<>> THEN <<>> ELSE Head(rows) \o Flatten(Tail(rows))

Range(s) == {s[i] : i \in DOMAIN s}

Max2(a, b) == IF a >= b THEN a ELSE b
Min2(a, b) == IF a <= b THEN a ELSE b
Abs(x) == IF x < 0 THEN -x ELSE x

SetMin(S) == CHOOSE x \in S : \A y \in S : x <= y
SetMax(S) == CHOOSE x \in S : \A y \in S : x >= y

\* The elements of a finite set of integers in ascending order.
RECURSIVE SortedSeq(_)
SortedSeq(S) == IF S = {} THEN <<>> ELSE <<SetMin(S)>> \o SortedSeq(S \ {SetMin(S)})

\* Sub-sequence of s at the positions (ascending) that satisfy keep.
RECURSIVE SelectIdx(_, _)
SelectIdx(s, idxs) == IF idxs = <<>> THEN <<>> ELSE <<s[Head(idxs)]>> \o SelectIdx(s, Tail(idxs))


(***************************************************************************)
(* pandas / numpy primitives used by the scripts.                          *)
(***************************************************************************)

\* np.linspace(start, stop, num): num evenly spaced values, both ends
\* included; num = 1 gives [start].  The lookup files enumerated below have
\* stop - start divisible by num - 1, so the integer quotient is exact.
Linspace(start, stop, num) ==
    [i \in 1..num |-> IF num = 1 THEN start
                      ELSE start + ((i - 1) * (stop - start)) \div (num - 1)]

\* The index arrays np.argsort may return: every permutation of the
\* positions that puts the keys in non-decreasing order (the default
\* quicksort is not stable, so the order among equal keys is not fixed).
ArgsortChoices(keys) ==
    LET n == Len(keys)
    IN {p \in [1..n -> 1..n] :
            /\ \A i, j \in 1..n : i # j => p[i] # p[j]
            /\ \A i \in 1..(n - 1) : keys[p[i]] <= keys[p[i + 1]]}

\* The positions of keys that hold key k, ascending.
PositionsOf(keys, k) == SortedSeq({i \in DOMAIN keys : keys[i] = k})

\* df.groupby(key, as_index=False).mean(): one row per distinct key, the
\* keys ascending, the value column replaced by the mean of the group, kept
\* exact as <<sum, count>>.
GroupByMean(keys, vals) ==
    LET ks == SortedSeq(Range(keys))
    IN [k \in 1..Len(ks) |->
            LET grp == SelectIdx(vals, PositionsOf(keys, ks[k]))
            IN <<ks[k], <<SumSeq(grp), Len(grp)>>>>]

(***************************************************************************)
(* scripts/convert_thrust_lookup.py                                        *)
(***************************************************************************)
SPAN_MIN == 10     \* the clamp 1e-9 of the span, in cmd units of 1e-10

CmdVals == {0, 5, 20}      \* cmd cells: 0, 5e-10 and 2e-9
LongHeader == <<"voltage_V", "force_N", "cmd">>
CurveHeader == <<"cmd", "throttle_pct", "thrust_N", "voltage_V">>

NoCurve == [v_sel |-> NoArg, f_vec |-> <<>>, cmd_vec |-> <<>>,
            cmd_1d |-> <<>>, thrust_1d |-> <<>>]

\* First row of a lookup file: N, minForce, maxForce, minVoltage,
\* maxVoltage, then zeros, cut or padded to the width of the file.
MetaRow(N, fmin, fmax, vmin, vmax, width) ==
    LET full == <<N, fmin, fmax, vmin, vmax>>
    IN [j \in 1..width |-> IF j <= 5 THEN full[j] ELSE 0]

\* A lookup file as the GP script writes it: N data rows, the grid in the
\* first N columns, zero padding up to the five columns of the meta row.
WellFormedFile(N, base, rowStep, fstep, vstep) ==
    LET width == Max2(N, 5)
    IN <<MetaRow(N, 1, 1 + fstep * (N - 1), 10, 10 + vstep * (N - 1), width)>>
       \o [i \in 1..N |->
              [j \in 1..width |-> IF j <= N THEN base[j] + rowStep * (i - 1) ELSE 0]]

\* A rectangular numeric file of any shape whose first entry is N.
ShapedFile(N, nrows, ncols) ==
    <<MetaRow(N, 1, N, 10, 9 + N, ncols)>>
    \o [i \in 1..nrows |-> [j \in 1..ncols |-> ((i + j) % 3) * 5]]

LookupArgs ==
    [name : {"motorA"}, voltage : {NoArg, <<11>>}, min_cmd : {NoArg, <<0>>},
     max_cmd : {NoArg, <<40>>}]

DefaultLookupArgs == [name |-> "motorA", voltage |-> NoArg, min_cmd |-> NoArg, max_cmd |-> NoArg]

\* read_lookup on the matrix np.loadtxt returned.  loadtxt squeezes a file
\* of one row or one column to a 1-D array, on which data[0, :] raises
\* IndexError; meta[1..4] raise IndexError on a file of fewer than five
\* columns.
ReadLookupResult(d) ==
    LET R == Len(d)
        W == Len(d[1])
        metaRow == d[1]
        Zall == Tail(d)
        N == metaRow[1]
        Zcut == IF Len(Zall) # N \/ W # N
                THEN [i \in 1..Len(Zall) |-> SubSeq(Zall[i], 1, Min2(N, W))]
                ELSE Zall
    IN IF R = 1 \/ W = 1 \/ W < 5
       THEN [ok |-> FALSE, error |-> "IndexError"]
       ELSE [ok |-> TRUE,
             voltages |-> Linspace(metaRow[4], metaRow[5], N),
             forces |-> Linspace(metaRow[2], metaRow[3], N),
             Z |-> Zcut,
             meta |-> [N |-> N, fmin |-> metaRow[2], fmax |-> metaRow[3],
                       vmin |-> metaRow[4], vmax |-> metaRow[5]]]

\* np.meshgrid(voltages, forces, indexing="ij") followed by ravel(): the
\* voltage of row i repeated for every force, and the forces repeated for
\* every voltage, both in row-major order.
MeshV(vs, fs) == Flatten([i \in 1..Len(vs) |-> [j \in 1..Len(fs) |-> vs[i]]])
MeshF(vs, fs) == Flatten([i \in 1..Len(vs) |-> [j \in 1..Len(fs) |-> fs[j]]])

\* A melt_grid whose meshgrid uses the default "xy" indexing.
MeltGridBad(vs, fs, grid) ==
    LET V == MeshF(fs, vs)
        F == MeshV(fs, vs)
        C == Flatten(grid)
    IN IF Len(C) # Len(V)
       THEN [ok |-> FALSE, error |-> "ValueError"]
       ELSE [ok |-> TRUE, header |-> LongHeader,
             rows |-> [k \in 1..Len(C) |-> <<V[k], F[k], C[k]>>]]

\* melt_grid: the long-form frame, or the ValueError pandas raises for
\* columns of different lengths.
melt_grid(vs, fs, grid) ==
    LET V == MeshV(vs, fs)
        F == MeshF(vs, fs)
        C == Flatten(grid)
    IN IF Len(C) # Len(V)
       THEN [ok |-> FALSE, error |-> "ValueError"]
       ELSE [ok |-> TRUE, header |-> LongHeader,
             rows |-> [k \in 1..Len(C) |-> <<V[k], F[k], C[k]>>]]

\* np.argmin: the first position of the smallest value (0-based).
ArgMin(s) == (CHOOSE i \in DOMAIN s :
                 /\ \A j \in DOMAIN s : s[i] <= s[j]
                 /\ \A j \in DOMAIN s : j < i => s[j] > s[i]) - 1

\* slice_voltage_curve: 0-based row index, then v_sel, forces, cmd row.
SliceIndex(vs, target) ==
    IF target = NoArg THEN Len(vs) \div 2
    ELSE ArgMin([i \in DOMAIN vs |-> Abs(vs[i] - target[1])])

slice_voltage_curve(vs, fs, grid, target) ==
    LET idx == SliceIndex(vs, target)
    IN [v_sel |-> vs[idx + 1], f_vec |-> fs, cmd_vec |-> grid[idx + 1]]

\* An inversion that sorts cmd but leaves force in its input order.
InvertUnordered(cmd, force, order) ==
    LET cmd_s == [i \in DOMAIN cmd |-> cmd[order[i]]]
        grouped == GroupByMean(cmd_s, force)
    IN [cmd_1d |-> [k \in DOMAIN grouped |-> grouped[k][1]],
        thrust_1d |-> [k \in DOMAIN grouped |-> grouped[k][2]]]

\* invert_cmd_vs_force_to_force_vs_cmd, for the index array order that
\* np.argsort returned.
invert_cmd_vs_force_to_force_vs_cmd(cmd, force, order) ==
    LET cmd_s == [i \in DOMAIN cmd |-> cmd[order[i]]]
        force_s == [i \in DOMAIN force |-> force[order[i]]]
        grouped == GroupByMean(cmd_s, force_s)
    IN [cmd_1d |-> [k \in DOMAIN grouped |-> grouped[k][1]],
        thrust_1d |-> [k \in DOMAIN grouped |-> grouped[k][2]]]

\* Throttle normalisation of main: cmin, cmax, the clamped span and the
\* percentage (cmd - cmin) / span * 100 as <<numerator, denominator>>.
Cmin(cmd_1d, a) == IF a.min_cmd = NoArg THEN SetMin(Range(cmd_1d)) ELSE a.min_cmd[1]
Cmax(cmd_1d, a) == IF a.max_cmd = NoArg THEN SetMax(Range(cmd_1d)) ELSE a.max_cmd[1]

\* A span that guards only against an exact zero.
SpanUnclamped(cmd_1d, a) ==
    LET s == Cmax(cmd_1d, a) - Cmin(cmd_1d, a) IN IF s = 0 THEN 1 ELSE s

Span(cmd_1d, a) == Max2(Cmax(cmd_1d, a) - Cmin(cmd_1d, a), SPAN_MIN)

ThrottlePct(cmd_1d, a) ==
    [k \in DOMAIN cmd_1d |-> <<(cmd_1d[k] - Cmin(cmd_1d, a)) * 100, Span(cmd_1d, a)>>]

CurveRows(c, a) ==
    LET pct == ThrottlePct(c.cmd_1d, a)
    IN [k \in DOMAIN c.cmd_1d |-> <<c.cmd_1d[k], pct[k], c.thrust_1d[k], c.v_sel>>]

\* Output file names: the fixed prefix and the --name suffix (".csv" left out).
LongName(a) == <<"thrust_lookup_long_", a.name>>
CurveName(a) == <<"thrustmap_throttle_from_lookup_", a.name>>

\* ---- actions of convert_thrust_lookup.main ----

ReadLookup ==
    /\ pc = "lookup_start"
    /\ LET r == ReadLookupResult(data)
       IN IF r.ok
          THEN /\ voltages' = r.voltages
               /\ forces' = r.forces
               /\ Z' = r.Z
               /\ meta' = r.meta
               /\ pc' = "lookup_read"
               /\ UNCHANGED <<err, exit_status>>
          ELSE /\ pc' = "error"
               /\ err' = r.error
               /\ exit_status' = 1
               /\ UNCHANGED <<voltages, forces, Z, meta>>
    /\ UNCHANGED <<out, data, args, curve, df, thrustVars, effVars>>

MeltAndWriteLong ==
    /\ pc = "lookup_read"
    /\ LET m == melt_grid(voltages, forces, Z)
       IN IF m.ok
          THEN /\ out' = Append(out, [name |-> LongName(args), header |-> m.header,
                                      rows |-> m.rows])
               /\ pc' = "lookup_melted"
               /\ UNCHANGED <<err, exit_status>>
          ELSE /\ pc' = "error"
               /\ err' = m.error
               /\ exit_status' = 1
               /\ UNCHANGED out
    /\ UNCHANGED <<data, args, voltages, forces, Z, meta, curve, df, thrustVars, effVars>>

SliceVoltageCurve ==
    /\ pc = "lookup_melted"
    /\ LET s == slice_voltage_curve(voltages, forces, Z, args.voltage)
       IN curve' = [curve EXCEPT !.v_sel = s.v_sel, !.f_vec = s.f_vec,
                                 !.cmd_vec = s.cmd_vec]
    /\ pc' = "lookup_sliced"
    /\ UNCHANGED <<err, out, data, args, voltages, forces, Z, meta, df,
                   thrustVars, exit_status, effVars>>

InvertCurve ==
    /\ pc = "lookup_sliced"
    /\ \E order \in ArgsortChoices(curve.cmd_vec) :
          LET r == invert_cmd_vs_force_to_force_vs_cmd(curve.cmd_vec, curve.f_vec, order)
          IN curve' = [curve EXCEPT !.cmd_1d = r.cmd_1d, !.thrust_1d = r.thrust_1d]
    /\ pc' = "lookup_inverted"
    /\ UNCHANGED <<err, out, data, args, voltages, forces, Z, meta, df,
                   thrustVars, exit_status, effVars>>

NormalizeAndWriteCurve ==
    /\ pc = "lookup_inverted"
    /\ out' = Append(out, [name |-> CurveName(args), header |-> CurveHeader,
                           rows |-> CurveRows(curve, args)])
    /\ pc' = "done"
    /\ exit_status' = 0
    /\ UNCHANGED <<err, data, args, voltages, forces, Z, meta, curve, df,
                   thrustVars, effVars>>

LookupInit ==
    /\ pc = "lookup_start"
    /\ err = ""
    /\ out = <<>>
    /\ \/ /\ \E N \in 1..MaxGrid, rowStep \in {0, 1}, fstep \in {0, 2} :
               \E base \in [1..N -> CmdVals] :
                  data = WellFormedFile(N, base, rowStep, fstep, 1)
          /\ args \in LookupArgs
       \/ /\ \E N \in 1..MaxN, nrows \in 0..MaxDataRows, ncols \in 1..MaxWidth :
               data = ShapedFile(N, nrows, ncols)
          /\ args = DefaultLookupArgs
    /\ voltages = <<>>
    /\ forces = <<>>
    /\ Z = <<>>
    /\ meta = <<>>
    /\ curve = NoCurve
    /\ df = <<>>
    /\ picked = <<>>
    /\ wrote_any = FALSE
    /\ exit_status = -1
    /\ bins = <<>>
    /\ g = <<>>

LookupNext ==
    \/ ReadLookup
    \/ MeltAndWriteLong
    \/ SliceVoltageCurve
    \/ InvertCurve
    \/ NormalizeAndWriteCurve

SpecLookup == LookupInit /\ [][LookupNext]_vars


(***************************************************************************)
(* scripts/process_thrust_map.py                                           *)
(* A data frame is [cols |-> the column names in order, val |-> for every  *)
(* column the sequence of its cells]; a cell is the exact quotient         *)
(* <<numerator, denominator>>, a cell read from the CSV being <<x, 1>>.    *)
(***************************************************************************)
MaxTmCols == 3     \* largest number of columns of an input log
MaxTmRows == 2     \* largest number of rows of an input log

NewtonAliases == <<"thrust_N", "thrust", "force_N">>
GramAliases == <<"thrust_g", "force_g">>
KgfAliases == <<"thrust_kgf", "force_kgf">>
ThrottleAliases == <<"throttle_pct", "throttle_percent", "throttle">>
RpmAliases == <<"rpm", "motor_rpm">>
VoltageAliases == <<"voltage_V", "voltage", "V", "battery_V">>
CurrentAliases == <<"current_A", "current", "I">>

\* 9.80665e-3 and 9.80665 as exact quotients.
GRAM_TO_N == <<980665, 100000000>>
KGF_TO_N == <<980665, 100000>>

\* Every column name an input log of the model may hold, in file order.
TmColumns ==
    <<"time_s">> \o ThrottleAliases \o RpmAliases \o NewtonAliases \o GramAliases
    \o KgfAliases \o VoltageAliases \o CurrentAliases \o <<"power_W", "note">>

IndexOf(s, x) == CHOOSE i \in DOMAIN s : s[i] = x

RatMul(a, b) == <<a[1] * b[1], a[2] * b[2]>>

ColNames(d) == Range(d.cols)
NRows(d) == IF d.cols = <<>> THEN 0 ELSE Len(d.val[d.cols[1]])

\* A pick_column that searches the aliases from the wrong end.
PickLast(d, aliases) ==
    LET hit == {i \in DOMAIN aliases : aliases[i] \in ColNames(d)}
    IN IF hit = {} THEN None ELSE aliases[SetMax(hit)]

\* pick_column: the first alias that is a column of the frame, else None.
pick_column(d, aliases) ==
    LET hit == {i \in DOMAIN aliases : aliases[i] \in ColNames(d)}
    IN IF hit = {} THEN None ELSE aliases[SetMin(hit)]

\* df.rename(columns=mapping): every column named in the mapping takes its
\* new name, in place; mapping is a set of <<old, new>> pairs.
RenameName(c, mapping) ==
    IF \E m \in mapping : m[1] = c THEN (CHOOSE m \in mapping : m[1] = c)[2] ELSE c

RenameHeader(header, mapping) == [i \in DOMAIN header |-> RenameName(header[i], mapping)]

RenameColumns(d, mapping) ==
    LET back(n) == CHOOSE c \in ColNames(d) : RenameName(c, mapping) = n
        newCols == RenameHeader(d.cols, mapping)
    IN [cols |-> newCols, val |-> [n \in Range(newCols) |-> d.val[back(n)]]]

\* df[name] = cells: overwrite the column in place, or append a new one.
SetColumn(d, name, cells) ==
    [cols |-> IF name \in ColNames(d) THEN d.cols ELSE Append(d.cols, name),
     val |-> [n \in ColNames(d) \cup {name} |-> IF n = name THEN cells ELSE d.val[n]]]

\* df[names]: the named columns in the order given.
SelectColumns(d, names) == [cols |-> names, val |-> [n \in Range(names) |-> d.val[n]]]

\* The rows of a frame, each the sequence of its cells in column order.
FrameRows(d) == [r \in 1..NRows(d) |-> [j \in DOMAIN d.cols |-> d.val[d.cols[j]][r]]]

ScaleColumn(d, src, factor) == [r \in 1..NRows(d) |-> RatMul(d.val[src][r], factor)]

\* ensure_thrust_newton: <<frame, thrust column name or None>>.
ensure_thrust_newton(d) ==
    LET thrust_col == pick_column(d, NewtonAliases)
        g_col == pick_column(d, GramAliases)
        kgf_col == pick_column(d, KgfAliases)
    IN IF thrust_col # None
       THEN <<IF thrust_col # "thrust_N"
              THEN RenameColumns(d, {<<thrust_col, "thrust_N">>})
              ELSE d,
              "thrust_N">>
       ELSE IF g_col # None
       THEN <<SetColumn(d, "thrust_N", ScaleColumn(d, g_col, GRAM_TO_N)), "thrust_N">>
       ELSE IF kgf_col # None
       THEN <<SetColumn(d, "thrust_N", ScaleColumn(d, kgf_col, KGF_TO_N)), "thrust_N">>
       ELSE <<d, None>>

\* add_power_if_possible.
add_power_if_possible(d) ==
    LET v == pick_column(d, VoltageAliases)
        i == pick_column(d, CurrentAliases)
    IN IF v # None /\ i # None
       THEN SetColumn(d, "power_W",
                      [r \in 1..NRows(d) |-> RatMul(d.val[v][r], d.val[i][r])])
       ELSE d

\* df[[key, value]].dropna().groupby(key, as_index=False)
\*   .mean(numeric_only=True).sort_values(key): one row per distinct key,
\* ascending, with the mean of the value column.  The cells of one column
\* share their denominator, so the mean of a group is the sum of the
\* numerators over the denominator times the group size.
GroupMeanFrame(d, key, value) ==
    LET keys == [r \in 1..NRows(d) |-> d.val[key][r][1]]
        nums == [r \in 1..NRows(d) |-> d.val[value][r][1]]
        den == IF NRows(d) = 0 THEN 1 ELSE d.val[value][1][2]
        grouped == GroupByMean(keys, nums)
    IN [cols |-> <<key, value>>,
        val |-> [n \in {key, value} |->
                    IF n = key
                    THEN [k \in DOMAIN grouped |-> <<grouped[k][1], 1>>]
                    ELSE [k \in DOMAIN grouped |-> <<grouped[k][2][1], den * grouped[k][2][2]>>]]]

\* frame.to_csv(path, index=False).
CsvFile(name, d) == [name |-> name, header |-> d.cols, rows |-> FrameRows(d)]

\* The columns of the combined clean file, in order.
KeepCols(d, p) ==
    LET cand == <<"time_s", p.throttle_col, p.rpm_col, p.thrust_col,
                  "voltage_V", "current_A", "power_W">>
        keep == {i \in DOMAIN cand :
                    /\ \/ cand[i] \in ColNames(d)
                       \/ cand[i] \in {p.thrust_col, p.throttle_col, p.rpm_col}
                    /\ cand[i] # None}
    IN SelectIdx(cand, SortedSeq(keep))

ThrottleFileName(a) == <<"thrustmap_throttle_", a.name>>
RpmFileName(a) == <<"thrustmap_rpm_", a.name>>
CleanFileName(a) == <<"thrustmap_clean_", a.name>>

NoPicks == [thrust_col |-> None, throttle_col |-> None, rpm_col |-> None]

\* ---- actions of process_thrust_map.main ----

\* df = pd.read_csv(inp): data is the content of the input log.
ReadThrustLog ==
    /\ pc = "tm_start"
    /\ df' = data
    /\ pc' = "tm_loaded"
    /\ UNCHANGED <<err, out, args, lookupVars, thrustVars, exit_status, effVars>>

EnsureThrust ==
    /\ pc = "tm_loaded"
    /\ LET r == ensure_thrust_newton(df)
       IN /\ df' = r[1]
          /\ picked' = [picked EXCEPT !.thrust_col = r[2]]
    /\ pc' = "tm_thrust"
    /\ UNCHANGED <<err, out, args, lookupVars, wrote_any, exit_status, effVars>>

AddPowerAndPick ==
    /\ pc = "tm_thrust"
    /\ LET d == add_power_if_possible(df)
       IN /\ df' = d
          /\ picked' = [picked EXCEPT !.throttle_col = pick_column(d, ThrottleAliases),
                                      !.rpm_col = pick_column(d, RpmAliases)]
    /\ pc' = "tm_picked"
    /\ UNCHANGED <<err, out, args, lookupVars, wrote_any, exit_status, effVars>>

WriteThrottle ==
    /\ pc = "tm_picked"
    /\ IF picked.throttle_col # None /\ picked.thrust_col # None
       THEN LET t == GroupMeanFrame(df, picked.throttle_col, picked.thrust_col)
                h == RenameHeader(t.cols, {<<picked.throttle_col, "throttle_pct">>,
                                           <<picked.thrust_col, "thrust_N">>})
            IN /\ out' = Append(out, [name |-> ThrottleFileName(args), header |-> h,
                                      rows |-> FrameRows(t)])
               /\ wrote_any' = TRUE
       ELSE UNCHANGED <<out, wrote_any>>
    /\ pc' = "tm_throttle"
    /\ UNCHANGED <<err, args, lookupVars, df, picked, exit_status, effVars>>

WriteRpm ==
    /\ pc = "tm_throttle"
    /\ IF picked.rpm_col # None /\ picked.thrust_col # None
       THEN LET t == GroupMeanFrame(df, picked.rpm_col, picked.thrust_col)
                h == RenameHeader(t.cols, {<<picked.rpm_col, "rpm">>,
                                           <<picked.thrust_col, "thrust_N">>})
            IN /\ out' = Append(out, [name |-> RpmFileName(args), header |-> h,
                                      rows |-> FrameRows(t)])
               /\ wrote_any' = TRUE
       ELSE UNCHANGED <<out, wrote_any>>
    /\ pc' = "tm_rpm"
    /\ UNCHANGED <<err, args, lookupVars, df, picked, exit_status, effVars>>

\* A clean-file step that forgets to set wrote_any.
WriteCleanNoFlag ==
    /\ pc = "tm_rpm"
    /\ LET keep_cols == KeepCols(df, picked)
       IN IF keep_cols # <<>>
          THEN out' = Append(out, CsvFile(CleanFileName(args), SelectColumns(df, keep_cols)))
          ELSE UNCHANGED out
    /\ pc' = "tm_clean"
    /\ UNCHANGED <<err, args, lookupVars, df, picked, wrote_any, exit_status, effVars>>

WriteClean ==
    /\ pc = "tm_rpm"
    /\ LET keep_cols == KeepCols(df, picked)
       IN IF keep_cols # <<>>
          THEN /\ out' = Append(out, CsvFile(CleanFileName(args), SelectColumns(df, keep_cols)))
               /\ wrote_any' = TRUE
          ELSE UNCHANGED <<out, wrote_any>>
    /\ pc' = "tm_clean"
    /\ UNCHANGED <<err, args, lookupVars, df, picked, exit_status, effVars>>

\* The end of main: sys.exit(1) after the [ERROR] message when nothing was
\* written, the normal end (status 0) otherwise.
FinishThrustMap ==
    /\ pc = "tm_clean"
    /\ IF ~wrote_any
       THEN /\ pc' = "exit"
            /\ err' = "[ERROR] No outputs were generated"
            /\ exit_status' = 1
       ELSE /\ pc' = "done"
            /\ exit_status' = 0
            /\ UNCHANGED err
    /\ UNCHANGED <<out, args, lookupVars, df, picked, wrote_any, effVars>>

\* The input logs: up to MaxTmCols columns out of TmColumns, in file order,
\* up to MaxTmRows rows.  The cell of column number c in row r is c + 30 * r,
\* or c in every row when the log repeats its values (repeat), so that the
\* group-by finds one group.
RECURSIVE ColumnSetsUpTo(_)
ColumnSetsUpTo(k) ==
    IF k = 0 THEN {{}}
    ELSE LET P == ColumnSetsUpTo(k - 1)
         IN P \cup {s \cup {c} : s \in P, c \in Range(TmColumns)}

ThrustLog(colset, nrows, repeat) ==
    LET idxs == SortedSeq({IndexOf(TmColumns, c) : c \in colset})
        cols == SelectIdx(TmColumns, idxs)
    IN [cols |-> cols,
        val |-> [n \in colset |->
                    [r \in 1..nrows |->
                        <<IndexOf(TmColumns, n) + (IF repeat THEN 0 ELSE 30 * r), 1>>]]]

ThrustMapInit ==
    /\ pc = "tm_start"
    /\ err = ""
    /\ out = <<>>
    /\ \E colset \in ColumnSetsUpTo(MaxTmCols) \ {{}}, nrows \in 0..MaxTmRows,
          repeat \in BOOLEAN :
          data = ThrustLog(colset, nrows, repeat)
    /\ args = [name |-> "motorA"]
    /\ voltages = <<>>
    /\ forces = <<>>
    /\ Z = <<>>
    /\ meta = <<>>
    /\ curve = NoCurve
    /\ df = <<>>
    /\ picked = NoPicks
    /\ wrote_any = FALSE
    /\ exit_status = -1
    /\ bins = <<>>
    /\ g = <<>>

ThrustMapNext ==
    \/ ReadThrustLog
    \/ EnsureThrust
    \/ AddPowerAndPick
    \/ WriteThrottle
    \/ WriteRpm
    \/ WriteClean
    \/ FinishThrustMap

SpecThrustMap == ThrustMapInit /\ [][ThrustMapNext]_vars

(***************************************************************************)
(* scripts/process_efficiency.py                                           *)
(* The cells of the input log are integers.  The 5th and 95th percentile   *)
(* are kept in units of 1/20 and the bin edges in units of 1/(20 * bins),  *)
(* which makes the linear interpolation of quantile() and the spacing of   *)
(* np.linspace() exact.  A mean is <<sum, count>>; the mean of an empty    *)
(* group, NaN, is <<0, 0>>.                                                *)
(***************************************************************************)
MaxEffRows == 5    \* largest number of rows of an efficiency log
MaxBins == 2       \* largest --bins

SpeedVals == {0, 1, 2}
EffColumns == <<"speed_mps", "power_W", "voltage_V", "current_A", "thrust_sum_N">>

ValidationError == "ValueError: Input must contain speed_mps and either power_W or voltage_V,current_A; optionally thrust_sum_N"
CutError == "ValueError: Bin edges must be unique"

IsNaN(q) == q[2] = 0
RatDiv(a, b) == <<a[1] * b[2], a[2] * b[1]>>

\* Sorting of a sequence of integers (ascending, duplicates kept).
RECURSIVE SortSeq(_)
SortSeq(s) ==
    IF s = <<>> THEN <<>>
    ELSE LET m == SetMin(Range(s))
             i == CHOOSE j \in DOMAIN s : s[j] = m
         IN <<m>> \o SortSeq(SubSeq(s, 1, i - 1) \o SubSeq(s, i + 1, Len(s)))

\* Series.quantile(k / 20) with linear interpolation, times 20: the value
\* at the fractional position (n - 1) * k / 20 of the sorted values.
Quantile20(xs, k) ==
    LET srt == SortSeq(xs)
        n == Len(xs)
        h == (n - 1) * k
        lo == h \div 20
        fr == h % 20
        hi == Min2(lo + 1, n - 1)
    IN 20 * srt[lo + 1] + fr * (srt[hi + 1] - srt[lo + 1])

\* np.linspace(smin, smax, nb + 1) in units of 1 / (20 * nb).
BinEdges(smin20, smax20, nb) ==
    [i \in 1..(nb + 1) |-> nb * smin20 + (i - 1) * (smax20 - smin20)]

\* pd.cut(x, bins=edges, include_lowest=True) decides as follows.  Equal
\* edges raise ValueError unless there are just two edges.  The bin of x is
\* the number of edges below x (searchsorted, side "left"), 1 when x equals
\* the lowest edge; it is NaN (0 here) below the lowest and above the
\* highest edge.
CutRaises(edges) == Cardinality(Range(edges)) < Len(edges) /\ Len(edges) # 2

BinOf(x, edges) ==
    LET ids == IF x = edges[1] THEN 1
               ELSE Cardinality({i \in DOMAIN edges : edges[i] < x})
    IN IF ids = 0 \/ ids = Len(edges) THEN 0 ELSE ids

\* The validation of main: the condition under which ValueError is raised.
Rejects(d) ==
    \/ "speed_mps" \notin ColNames(d)
    \/ ("power_W" \notin ColNames(d) /\ "thrust_sum_N" \notin ColNames(d))

\* The columns main aggregates, in the order of the agg dict.
AggColumns(d) ==
    <<"speed_mps">>
    \o (IF "power_W" \in ColNames(d) THEN <<"power_W">> ELSE <<>>)
    \o (IF "thrust_sum_N" \in ColNames(d) THEN <<"thrust_sum_N">> ELSE <<>>)

\* The mean of a column over the rows of one bin.
BinMean(d, col, b) ==
    LET members == {r \in 1..NRows(d) : d.val["speed_bin"][r] = b}
        cells == SelectIdx(d.val[col], SortedSeq(members))
    IN <<SumSeq(cells), Len(cells)>>

\* df.groupby("speed_bin").agg(agg).dropna().reset_index(drop=True): one
\* row per bin in ascending order, the bins with a NaN mean dropped.
Aggregate(d, nbins) ==
    LET cols == AggColumns(d)
        kept == SortedSeq({b \in 1..nbins :
                              \A j \in DOMAIN cols : ~IsNaN(BinMean(d, cols[j], b))})
    IN [cols |-> cols,
        val |-> [n \in Range(cols) |-> [k \in DOMAIN kept |-> BinMean(d, n, kept[k])]]]

\* energy_per_km: (power_W / speed_mps) * (1000 / 3600); a division by a
\* zero speed gives inf or NaN (denominator 0), no exception.
energy_per_km(power_W, speed_mps) == RatMul(RatDiv(power_W, speed_mps), <<1000, 3600>>)

WithEnergy(gf) ==
    IF "power_W" \in ColNames(gf)
    THEN SetColumn(gf, "energy_Wh_per_km",
                   [k \in 1..NRows(gf) |->
                       energy_per_km(gf.val["power_W"][k], gf.val["speed_mps"][k])])
    ELSE gf

EfficiencyFileName(a) == <<"efficiency_", a.name>>

\* ---- actions of process_efficiency.main ----

ReadEfficiencyLog ==
    /\ pc = "eff_start"
    /\ df' = data
    /\ pc' = "eff_loaded"
    /\ UNCHANGED <<err, out, args, lookupVars, thrustVars, exit_status, effVars>>

ComputePower ==
    /\ pc = "eff_loaded"
    /\ df' = IF {"voltage_V", "current_A"} \subseteq ColNames(df)
             THEN SetColumn(df, "power_W",
                            [r \in 1..NRows(df) |->
                                df.val["voltage_V"][r] * df.val["current_A"][r]])
             ELSE df
    /\ pc' = "eff_power"
    /\ UNCHANGED <<err, out, args, lookupVars, thrustVars, exit_status, effVars>>

Validate ==
    /\ pc = "eff_power"
    /\ IF Rejects(df)
       THEN /\ pc' = "error"
            /\ err' = ValidationError
            /\ exit_status' = 1
       ELSE /\ pc' = "eff_valid"
            /\ UNCHANGED <<err, exit_status>>
    /\ UNCHANGED <<out, args, lookupVars, df, thrustVars, effVars>>

BinBySpeed ==
    /\ pc = "eff_valid"
    /\ LET speeds == df.val["speed_mps"]
           smin == Quantile20(speeds, 1)
           smax == Quantile20(speeds, 19)
           edges == BinEdges(smin, smax, args.bins)
       IN /\ bins' = edges
          /\ IF CutRaises(edges)
             THEN /\ pc' = "error"
                  /\ err' = CutError
                  /\ exit_status' = 1
                  /\ UNCHANGED df
             ELSE /\ df' = SetColumn(df, "speed_bin",
                                     [r \in 1..NRows(df) |->
                                         BinOf(speeds[r] * 20 * args.bins, edges)])
                  /\ pc' = "eff_binned"
                  /\ UNCHANGED <<err, exit_status>>
    /\ UNCHANGED <<out, args, lookupVars, thrustVars, g>>

AggregateBins ==
    /\ pc = "eff_binned"
    /\ g' = WithEnergy(Aggregate(df, Len(bins) - 1))
    /\ pc' = "eff_agg"
    /\ UNCHANGED <<err, out, args, lookupVars, df, thrustVars, exit_status, bins>>

WriteEfficiency ==
    /\ pc = "eff_agg"
    /\ out' = Append(out, CsvFile(EfficiencyFileName(args), g))
    /\ pc' = "done"
    /\ exit_status' = 0
    /\ UNCHANGED <<err, args, lookupVars, df, thrustVars, effVars>>

\* The input logs: any non-empty choice of EffColumns, 1..MaxEffRows rows,
\* the speeds free; row r holds power_W 100 + r, voltage_V 10 + r,
\* current_A r and thrust_sum_N 2 * r.
EffCell(col, r, speeds) ==
    CASE col = "speed_mps" -> speeds[r]
      [] col = "power_W" -> 100 + r
      [] col = "voltage_V" -> 10 + r
      [] col = "current_A" -> r
      [] col = "thrust_sum_N" -> 2 * r

EfficiencyLog(colset, speeds) ==
    LET idxs == SortedSeq({IndexOf(EffColumns, c) : c \in colset})
    IN [cols |-> SelectIdx(EffColumns, idxs),
        val |-> [n \in colset |-> [r \in 1..Len(speeds) |-> EffCell(n, r, speeds)]]]

EfficiencyInit ==
    /\ pc = "eff_start"
    /\ err = ""
    /\ out = <<>>
    /\ \E colset \in (SUBSET Range(EffColumns)) \ {{}}, n \in 1..MaxEffRows :
          \E speeds \in [1..n -> SpeedVals] :
             data = EfficiencyLog(colset, speeds)
    /\ args \in [name : {"xwing_indi"}, bins : 1..MaxBins]
    /\ voltages = <<>>
    /\ forces = <<>>
    /\ Z = <<>>
    /\ meta = <<>>
    /\ curve = NoCurve
    /\ df = <<>>
    /\ picked = NoPicks
    /\ wrote_any = FALSE
    /\ exit_status = -1
    /\ bins = <<>>
    /\ g = <<>>

EfficiencyNext ==
    \/ ReadEfficiencyLog
    \/ ComputePower
    \/ Validate
    \/ BinBySpeed
    \/ AggregateBins
    \/ WriteEfficiency

SpecEfficiency == EfficiencyInit /\ [][EfficiencyNext]_vars

(***************************************************************************)
(* Claims about convert_thrust_lookup (checked under SpecLookup).          *)
(***************************************************************************)
RECURSIVE SumOver(_, _)
SumOver(f, S) == IF S = {} THEN 0
                 ELSE LET i == SetMin(S) IN f[i] + SumOver(f, S \ {i})

LookupAfterInvert == pc \in {"lookup_inverted", "done"}
LookupAfterMelt == pc \in {"lookup_melted", "lookup_sliced", "lookup_inverted", "done"}

\* C1: the inverted curve has its cmd values strictly increasing, holds
\* every distinct cmd of the slice exactly once, and its k-th thrust is the
\* arithmetic mean (sum over count) of the forces at exactly the positions
\* of the slice whose cmd is the k-th returned cmd.
C1_InvertSortedUniqueMean ==
    LookupAfterInvert =>
        LET cmd == curve.cmd_vec
            force == curve.f_vec
            c1 == curve.cmd_1d
            t1 == curve.thrust_1d
        IN /\ Len(c1) = Len(t1)
           /\ \A k \in 1..(Len(c1) - 1) : c1[k] < c1[k + 1]
           /\ Range(c1) = Range(cmd)
           /\ \A k \in DOMAIN c1 :
                 LET at == {i \in DOMAIN cmd : cmd[i] = c1[k]}
                 IN /\ t1[k] = <<SumOver(force, at), Cardinality(at)>>
                    /\ (Cardinality(at) = 1 => \E i \in at : t1[k] = <<force[i], 1>>)

\* C1 witness: an unsorted slice with a duplicated cmd whose forces differ
\* has been inverted.
C1_Witness ==
    /\ pc = "lookup_inverted"
    /\ Len(curve.cmd_1d) >= 2
    /\ Len(curve.cmd_1d) < Len(curve.cmd_vec)
    /\ \E i \in 1..(Len(curve.cmd_vec) - 1) : curve.cmd_vec[i] > curve.cmd_vec[i + 1]
    /\ \A i, j \in DOMAIN curve.f_vec : i # j => curve.f_vec[i] # curve.f_vec[j]

GridIsSquare ==
    /\ Len(voltages) = Len(forces)
    /\ Len(Z) = Len(voltages)
    /\ \A i \in DOMAIN Z : Len(Z[i]) = Len(voltages)

\* C2: for an N x N grid melt_grid never fails, and the long file it gives
\* has the header voltage_V, force_N, cmd and exactly N*N rows, row i*N+j
\* (0-based) being (voltages[i], forces[j], Z[i][j]).
C2_MeltGridRows ==
    /\ (pc = "error" /\ err = "ValueError") => ~GridIsSquare
    /\ LookupAfterMelt =>
          LET N == Len(voltages)
          IN /\ GridIsSquare
             /\ Len(out) >= 1
             /\ out[1].header = <<"voltage_V", "force_N", "cmd">>
             /\ Len(out[1].rows) = N * N
             /\ \A i, j \in 0..(N - 1) :
                   out[1].rows[i * N + j + 1] = <<voltages[i + 1], forces[j + 1], Z[i + 1][j + 1]>>

\* C2 witness: a grid of at least 2 x 2 with distinct forces was melted.
C2_Witness ==
    /\ pc = "lookup_melted"
    /\ Len(voltages) >= 2
    /\ Len(out) = 1
    /\ forces[1] # forces[2]
    /\ Z[1][2] # Z[2][1]

\* C3: read_lookup returns a voltages vector of length N, a forces vector
\* of length N and a grid of shape N x N for every rectangular file, N
\* being the declared size in the first entry of the file.
C3_ReadShape ==
    pc = "lookup_read" =>
        /\ Len(voltages) = meta.N
        /\ Len(forces) = meta.N
        /\ Len(Z) = meta.N
        /\ \A i \in DOMAIN Z : Len(Z[i]) = meta.N

NoCmdArgs == args.min_cmd = NoArg /\ args.max_cmd = NoArg

\* The 1D curve file: rows <<cmd, throttle_pct, thrust_N, voltage_V>>.
CurveFileRows == out[2].rows
PctIs(p, x) == p[2] > 0 /\ p[1] = x * p[2]
PctLeq(p, q) == p[1] * q[2] <= q[1] * p[2]

C10_Common ==
    LET rows == CurveFileRows
        cmds == {rows[k][1] : k \in DOMAIN rows}
    IN /\ \A k \in DOMAIN rows : rows[k][2][2] > 0
       /\ \A k \in 1..(Len(rows) - 1) : PctLeq(rows[k][2], rows[k + 1][2])
       /\ \A k \in DOMAIN rows : 0 <= rows[k][2][1] /\ rows[k][2][1] <= 100 * rows[k][2][2]
       /\ \A k \in DOMAIN rows : rows[k][1] = SetMin(cmds) => PctIs(rows[k][2], 0)
       /\ (Cardinality(cmds) = 1 => Len(rows) = 1 /\ PctIs(rows[1][2], 0))

\* C10 as stated: without --min-cmd/--max-cmd throttle_pct is non-decreasing,
\* within [0, 100], 0 at the smallest cmd, 0 on a single row when all cmd
\* are equal, never divides by zero, and is 100 at the largest cmd whenever
\* the slice has at least two distinct cmd values.
C10_Original ==
    (pc = "done" /\ NoCmdArgs) =>
        LET rows == CurveFileRows
            cmds == {rows[k][1] : k \in DOMAIN rows}
        IN /\ C10_Common
           /\ (Cardinality(cmds) >= 2 =>
                  \A k \in DOMAIN rows : rows[k][1] = SetMax(cmds) => PctIs(rows[k][2], 100))

\* C10 amended: as C10, but the largest cmd has throttle_pct 100 only when
\* the largest and smallest cmd differ by at least 1e-9; when they differ by
\* less, its throttle_pct is (cmax - cmin) / 1e-9 * 100, which is below 100.
C10_ThrottlePctClamped ==
    (pc = "done" /\ NoCmdArgs) =>
        LET rows == CurveFileRows
            cmds == {rows[k][1] : k \in DOMAIN rows}
            width == SetMax(cmds) - SetMin(cmds)
        IN /\ C10_Common
           /\ \A k \in DOMAIN rows : rows[k][1] = SetMax(cmds) =>
                 IF width >= SPAN_MIN
                 THEN PctIs(rows[k][2], 100)
                 ELSE /\ rows[k][2] = <<width * 100, SPAN_MIN>>
                      /\ ~PctIs(rows[k][2], 100)

\* C10 witness: a curve written without --min-cmd/--max-cmd whose largest
\* and smallest cmd differ, but by less than 1e-9.
C10_Witness ==
    /\ pc = "done"
    /\ NoCmdArgs
    /\ Len(out) = 2
    /\ LET cmds == {CurveFileRows[k][1] : k \in DOMAIN CurveFileRows}
       IN /\ Cardinality(cmds) >= 2
          /\ SetMax(cmds) - SetMin(cmds) < SPAN_MIN


(***************************************************************************)
(* Claims about process_thrust_map (checked under SpecThrustMap).          *)
(***************************************************************************)
ThrustMapEnded == pc \in {"exit", "done"}
ThrustMapAfterEnsure ==
    pc \in {"tm_thrust", "tm_picked", "tm_throttle", "tm_rpm", "tm_clean", "exit", "done"}

OutNames == {out[i].name : i \in DOMAIN out}
InputCols == ColNames(data)

\* Whether the input log holds one of the names, and the first of them it holds.
AnyPresent(names) == \E i \in DOMAIN names : names[i] \in InputCols
FirstPresent(names) ==
    names[CHOOSE i \in DOMAIN names :
              /\ names[i] \in InputCols
              /\ \A j \in 1..(i - 1) : names[j] \notin InputCols]

ThrustInInput ==
    AnyPresent(<<"thrust_N", "thrust", "force_N", "thrust_g", "force_g",
                 "thrust_kgf", "force_kgf">>)
ThrottleInInput == AnyPresent(<<"throttle_pct", "throttle_percent", "throttle">>)
RpmInInput == AnyPresent(<<"rpm", "motor_rpm">>)

\* C4: the run ends with exit status 1 (after the [ERROR] message) exactly
\* when it wrote no file; a run that ends normally wrote at least one; the
\* throttle file is written iff a throttle and a thrust column were found,
\* the rpm file iff an rpm and a thrust column were found.
C4_ExitStatusAndFiles ==
    ThrustMapEnded =>
        /\ (exit_status = 1) <=> (out = <<>>)
        /\ (exit_status = 1) <=> (pc = "exit" /\ err = "[ERROR] No outputs were generated")
        /\ pc = "done" => (exit_status = 0 /\ Len(out) >= 1)
        /\ (<<"thrustmap_throttle_", args.name>> \in OutNames)
              <=> (ThrottleInInput /\ ThrustInInput)
        /\ (<<"thrustmap_rpm_", args.name>> \in OutNames)
              <=> (RpmInInput /\ ThrustInInput)
        /\ OutNames \subseteq {<<"thrustmap_throttle_", args.name>>,
                               <<"thrustmap_rpm_", args.name>>,
                               <<"thrustmap_clean_", args.name>>}

\* C4 witness: a run that ended with exit status 1 on a log that does have
\* columns, none of them one the script knows.
C4_Witness ==
    /\ pc = "exit"
    /\ exit_status = 1
    /\ Len(data.cols) >= 2

\* C5: ensure_thrust_newton takes the first present of thrust_N, thrust,
\* force_N unchanged (renamed to thrust_N in place), else the first present
\* of thrust_g, force_g times 9.80665e-3, else the first present of
\* thrust_kgf, force_kgf times 9.80665; it returns 'thrust_N' and a frame
\* with a thrust_N column iff one of the seven is present, and None with
\* the frame unchanged otherwise.
C5_ThrustPriority ==
    ThrustMapAfterEnsure =>
        LET newton == <<"thrust_N", "thrust", "force_N">>
            gram == <<"thrust_g", "force_g">>
            kgf == <<"thrust_kgf", "force_kgf">>
            rows == 1..NRows(data)
        IN /\ (picked.thrust_col = None) <=> ~ThrustInInput
           /\ picked.thrust_col \in {None, "thrust_N"}
           /\ ThrustInInput => "thrust_N" \in ColNames(df)
           /\ (~ThrustInInput /\ pc = "tm_thrust") => df = data
           /\ AnyPresent(newton) =>
                 LET a == FirstPresent(newton)
                 IN /\ df.val["thrust_N"] = data.val[a]
                    /\ pc = "tm_thrust" =>
                          /\ Len(df.cols) = Len(data.cols)
                          /\ \A i \in DOMAIN data.cols :
                                df.cols[i] = IF data.cols[i] = a THEN "thrust_N"
                                             ELSE data.cols[i]
           /\ (~AnyPresent(newton) /\ AnyPresent(gram)) =>
                 \A r \in rows :
                    df.val["thrust_N"][r] =
                        <<data.val[FirstPresent(gram)][r][1] * 980665, 100000000>>
           /\ (~AnyPresent(newton) /\ ~AnyPresent(gram) /\ AnyPresent(kgf)) =>
                 \A r \in rows :
                    df.val["thrust_N"][r] =
                        <<data.val[FirstPresent(kgf)][r][1] * 980665, 100000>>

\* C5 witness: a log with rows that holds two gram aliases and a kgf alias
\* and no Newton alias went through ensure_thrust_newton.
C5_Witness ==
    /\ pc = "tm_thrust"
    /\ NRows(data) >= 1
    /\ {"thrust_g", "force_g", "thrust_kgf"} \subseteq InputCols
    /\ picked.thrust_col = "thrust_N"

\* The position of a name in a header, 0 when absent.
HeaderPos(h, n) == IF n \in Range(h) THEN IndexOf(h, n) ELSE 0

\* C6: in every output file the throttle column is headed throttle_pct, the
\* rpm column rpm and the thrust column thrust_N, whichever alias the input
\* used, the key column standing before thrust_N: no output header holds
\* another alias of the three.
C6_NormalizedHeaders ==
    ThrustMapEnded =>
        \A i \in DOMAIN out :
            LET h == out[i].header
                kind == out[i].name[1]
            IN /\ Range(h) \cap {"throttle_percent", "throttle", "motor_rpm",
                                 "thrust", "force_N"} = {}
               /\ (kind = "thrustmap_throttle_") => h = <<"throttle_pct", "thrust_N">>
               /\ (kind = "thrustmap_rpm_") => h = <<"rpm", "thrust_N">>
               /\ (kind = "thrustmap_clean_") =>
                     /\ ThrottleInInput => "throttle_pct" \in Range(h)
                     /\ RpmInInput => "rpm" \in Range(h)
                     /\ ThrustInInput => "thrust_N" \in Range(h)
                     /\ \A k \in {"throttle_pct", "rpm"} :
                           (k \in Range(h) /\ "thrust_N" \in Range(h))
                               => HeaderPos(h, k) < HeaderPos(h, "thrust_N")

\* What does hold of the headers: the throttle and the rpm file are
\* normalised, and the clean file normalises the thrust column only.
ThrottleAndRpmHeadersNormalized ==
    ThrustMapEnded =>
        \A i \in DOMAIN out :
            LET h == out[i].header
                kind == out[i].name[1]
            IN /\ (kind = "thrustmap_throttle_") => h = <<"throttle_pct", "thrust_N">>
               /\ (kind = "thrustmap_rpm_") => h = <<"rpm", "thrust_N">>
               /\ (kind = "thrustmap_clean_" /\ ThrustInInput) => "thrust_N" \in Range(h)
               /\ (kind = "thrustmap_clean_" /\ ThrottleInInput) =>
                     FirstPresent(<<"throttle_pct", "throttle_percent", "throttle">>) \in Range(h)


(***************************************************************************)
(* Claims about process_efficiency (checked under SpecEfficiency).         *)
(***************************************************************************)
EffInputCols == ColNames(data)

\* The run got past the column validation.
EffAccepted ==
    \/ pc \in {"eff_valid", "eff_binned", "eff_agg", "done"}
    \/ (pc = "error" /\ err = CutError)

EffEnded == pc \in {"error", "done"}

\* C7: ValueError is raised, before any CSV is written, for every input
\* without speed_mps or with neither power_W nor both voltage_V and
\* current_A, whether or not thrust_sum_N is present: an input that gets
\* past the validation has speed_mps and a source of power.
C7_RejectsWithoutPower ==
    /\ (pc = "error" /\ err = ValidationError) => out = <<>>
    /\ EffAccepted =>
          /\ "speed_mps" \in EffInputCols
          /\ \/ "power_W" \in EffInputCols
             \/ {"voltage_V", "current_A"} \subseteq EffInputCols

\* C9: every input that passes the validation and has at least one row
\* completes without error and writes exactly one file efficiency_<name>.
C9_CompletesAndWritesOne ==
    /\ (EffAccepted /\ NRows(data) >= 1) => pc # "error"
    /\ pc = "done" => (Len(out) = 1 /\ out[1].name = <<"efficiency_", args.name>>)

\* The bins partition the percentile range, for a run that was binned: a
\* row is in a bin iff its speed is within [5th, 95th percentile]; its bin
\* is the one whose edges enclose it (left edge excluded, right edge
\* included, the lowest edge included in bin 1); the output holds one row
\* per non-empty bin, ascending, with the mean speed of the rows of the bin.
BinsPartitionRange ==
    LET speeds == data.val["speed_mps"]
        nb == args.bins
        unit == 20 * nb
        lo == nb * Quantile20(speeds, 1)
        hi == nb * Quantile20(speeds, 19)
        bin == df.val["speed_bin"]
        rowsOf(b) == {r \in DOMAIN speeds : bin[r] = b}
        nonEmpty == SortedSeq({b \in 1..nb : rowsOf(b) # {}})
    IN /\ Len(bins) = nb + 1
       /\ bins[1] = lo
       /\ bins[nb + 1] = hi
       /\ \A r \in DOMAIN speeds :
             LET x == speeds[r] * unit
             IN /\ (lo <= x /\ x <= hi) <=> (bin[r] \in 1..nb)
                /\ ~(lo <= x /\ x <= hi) => bin[r] = 0
                /\ bin[r] \in 1..nb =>
                      /\ x <= bins[bin[r] + 1]
                      /\ \/ bins[bin[r]] < x
                         \/ (bin[r] = 1 /\ x = bins[1])
       /\ pc = "done" =>
             /\ Len(out[1].rows) = Len(nonEmpty)
             /\ Len(out[1].rows) <= nb
             /\ \A k \in DOMAIN nonEmpty :
                   out[1].rows[k][1] = <<SumOver(speeds, rowsOf(nonEmpty[k])),
                                         Cardinality(rowsOf(nonEmpty[k]))>>

\* C8: for every validated input the speed bins partition the range
\* between the 5th and the 95th percentile, every row in the closed range
\* being averaged into exactly one bin and every other row into none, and
\* the output has one row per non-empty bin in ascending order.
C8_BinsPartition ==
    (EffAccepted /\ EffEnded) => (pc = "done" /\ BinsPartitionRange)

\* The part of C8 that holds: whenever pd.cut accepted the edges.
BinsPartitionWhenCut ==
    pc \in {"eff_binned", "eff_agg", "done"} => BinsPartitionRange

\* A row on an interior bin edge and a row on the lowest edge were binned.
BinsPartitionWitness ==
    /\ pc = "done"
    /\ args.bins >= 2
    /\ \E r \in 1..NRows(data) : data.val["speed_mps"][r] * 20 * args.bins = bins[2]
    /\ \E r \in 1..NRows(data) : data.val["speed_mps"][r] * 20 * args.bins = bins[1]

====
